---------------------------- MODULE Spec2Model ----------------------------
(***************************************************************************)
(* Model of src/app.py, the Streamlit dashboard "Analisis Air Minum Jawa   *)
(* Barat".  The script is re-run from top to bottom on every interaction;  *)
(* one action of this module is one complete rerun of one path through     *)
(* the page.  Process state that survives a rerun is the st.cache_resource *)
(* entry of load_ml_artifacts; everything else is recomputed.              *)
(*                                                                         *)
(* Library behaviour relied upon (streamlit, pandas, scikit-learn):        *)
(*   - st.stop() raises StopException, a BaseException: the rerun ends     *)
(*     silently and an `except Exception` clause does not catch it;        *)
(*   - st.cache_resource stores the return value of a call that returns    *)
(*     and stores nothing for a call that raises;                          *)
(*   - an exception no clause catches ends the rerun with a traceback;     *)
(*   - Series.map(dict) sends a value that is no key of the dict to NaN;   *)
(*   - DataFrame.sample(n) draws n rows without replacement;               *)
(*   - LabelEncoder.transform / inverse_transform raise ValueError on a    *)
(*     value the encoder was not fitted on.                                *)
(***************************************************************************)
EXTENDS Integers, Sequences, FiniteSets, Bags, TLC

VARIABLES
    files,      \* the three .pkl files in the working directory
    cached,     \* st.cache_resource holds a value for load_ml_artifacts()
    artifacts,  \* the cached dict (NoArtifacts while nothing is cached)
    bodyRan,    \* the body of load_ml_artifacts executed in the last rerun
    outcome,    \* how the last rerun ended: "none", "complete", "stopped", "crashed"
    out,        \* the elements the last rerun rendered, in order
    inp,        \* the widget values of the last rerun
    loc         \* the script's local variables at the end of the last rerun

vars == <<files, cached, artifacts, bodyRan, outcome, out, inp, loc>>

-----------------------------------------------------------------------------
(* Bounds of the model *)

\* most rows of an uploaded frame in the page specification
MaxPageRows == 1
\* most rows of an uploaded frame in the assessment specification
MaxRows == 2
\* most options ticked in the multiselect of the prediction form
MaxSelected == 2
\* most rows by which a filtered frame exceeds the sampling cap
MaxOver == 2

-----------------------------------------------------------------------------
(* Cells of a data frame *)

Str(s) == [kind |-> "str", str |-> s, num |-> 0]
Num(n) == [kind |-> "num", str |-> "", num |-> n]
NaN == [kind |-> "nan", str |-> "", num |-> 0]

\* Series.map({'ADA': 1, 'TIDAK': 0}): a dict lookup per value, NaN when the
\* value is no key of the dict (the numbers 1 and 0 are no keys of it)
MapAdaTidak(v) ==
    IF v.kind = "str" /\ v.str = "ADA" THEN Num(1)
    ELSE IF v.kind = "str" /\ v.str = "TIDAK" THEN Num(0)
    ELSE NaN

\* Series.fillna(0)
FillNa0(v) == IF v.kind = "nan" THEN Num(0) ELSE v

\* .map({'ADA': 1, 'TIDAK': 0}).fillna(0) [.astype(int)]
Remap(v) == FillNa0(MapAdaTidak(v))

-----------------------------------------------------------------------------
(* Column names *)

GroupCol == "bps_nama_kabupaten_kota"
KecCol == "bps_nama_kecamatan"

Kemasan == "ketersediaan_air_minum_sumber_kemasan"
LedengMeteran == "ketersediaan_air_minum_sumber_ledeng_meteran"
LedengTanpaMeteran == "ketersediaan_air_minum_sumber_ledeng_tanpa_meteran"
Sumur == "ketersediaan_air_minum_sumber_sumur"
SumurBor == "ketersediaan_air_minum_sumber_sumur_bor"
MataAir == "ketersediaan_air_minum_sumber_mata_air"
Sungai == "ketersediaan_air_minum_sumber_sungai"
Hujan == "ketersediaan_air_minum_sumber_hujan"
Lainnya == "ketersediaan_air_minum_sumber_lainnya"

\* the column names of the model that contain "ketersediaan_air_minum_sumber"
SumberNames ==
    {Kemasan, LedengMeteran, LedengTanpaMeteran, Sumur, SumurBor, MataAir,
     Sungai, Hujan, Lainnya}

\* [c for c in df.columns if "ketersediaan_air_minum_sumber" in c]
SumberCols(cols) == {c \in cols : c \in SumberNames}

layak_cols == <<Kemasan, LedengMeteran, LedengTanpaMeteran, MataAir>>

sumber_air_options ==
    <<LedengMeteran, LedengTanpaMeteran, Sumur, SumurBor, MataAir, Sungai,
      Hujan, Lainnya>>

Range(s) == {s[i] : i \in DOMAIN s}

-----------------------------------------------------------------------------
(* Data frames: a set of column names and a bag of rows, a row being a      *)
(* function from the column names to cells.  Row order plays no part in    *)
(* what the script computes from a frame.                                  *)

\* the sum of the values of a function with a finite domain
RECURSIVE SumFn(_)
SumFn(f) ==
    IF DOMAIN f = {} THEN 0
    ELSE LET r == CHOOSE x \in DOMAIN f : TRUE
         IN  f[r] + SumFn([x \in DOMAIN f \ {r} |-> f[x]])

\* len(df)
NRows(df) == SumFn(df.rows)

\* the rows of B that are in S
FilterBag(B, S) == [r \in S \cap DOMAIN B |-> B[r]]

\* B with every row r replaced by f[r]
MapBag(B, f) ==
    [s \in {f[r] : r \in DOMAIN B} |->
        SumFn([r \in {x \in DOMAIN B : f[x] = s} |-> B[r]])]

\* df[df[col] == value]; a comparison with None or NaN selects nothing
FilterEq(df, col, value) ==
    [df EXCEPT !.rows =
        FilterBag(@, {r \in DOMAIN @ : value.kind # "nan" /\ r[col] = value})]

\* sorted(df[col].dropna().unique()), as the set of its members
UniqueValues(df, col) ==
    {r[col] : r \in {x \in DOMAIN df.rows : x[col].kind # "nan"}}

\* df[col].sum() of a numeric column
ColSum(df, col) == SumFn([r \in DOMAIN df.rows |-> df.rows[r] * r[col].num])

\* a mean of exactly 0.5 taken for a majority
MeanAtLeastHalf(df, col) == 2 * ColSum(df, col) >= NRows(df)

\* df[col].mean() > 0.5, the mean being ColSum / NRows
MeanAboveHalf(df, col) == 2 * ColSum(df, col) > NRows(df)

\* a frame and the empty frame
Frame(cols, rows) == [cols |-> cols, rows |-> rows]
NoFrame == Frame({}, EmptyBag)

\* DataFrame.sample(n): n rows drawn without replacement, that is the frame
\* less a bag of NRows(df) - n of its rows; the set of the possible draws
Drops(df, k) ==
    {d \in [DOMAIN df.rows -> 0..k] :
        /\ \A r \in DOMAIN d : d[r] <= df.rows[r]
        /\ SumFn(d) = k}

Less(B, d) == [r \in {x \in DOMAIN B : B[x] > d[x]} |-> B[r] - d[r]]

Sample(df, n) ==
    {[df EXCEPT !.rows = Less(df.rows, d)] : d \in Drops(df, NRows(df) - n)}

-----------------------------------------------------------------------------
(* Section 2 of the script: the artifacts and their cached loader *)

FileNames == {"model.pkl", "scaler.pkl", "encoders.pkl"}

EncKab == "label_bps_nama_kabupaten_kota"
EncKec == "label_bps_nama_kecamatan"
EncTarget == "label_target"

\* the classes_ of the fitted encoders an encoders.pkl of the model may hold
KnownKab == "Kabupaten Bogor"
KnownKec == "Gunung Putri"
TargetClasses == {<<"ADA", "TIDAK">>, <<"LAYAK", "TIDAK LAYAK">>}

EncoderDicts ==
    {e \in UNION {[K -> {<<KnownKab>>, <<KnownKec>>} \cup TargetClasses] :
                    K \in SUBSET {EncKab, EncKec, EncTarget}} :
        /\ EncKab \in DOMAIN e => e[EncKab] = <<KnownKab>>
        /\ EncKec \in DOMAIN e => e[EncKec] = <<KnownKec>>
        /\ EncTarget \in DOMAIN e => e[EncTarget] \in TargetClasses}

\* what the three files hold: whether the loaded model and scaler are truthy
\* objects, and the dict of encoders.pkl
FileStates == [model : BOOLEAN, scaler : BOOLEAN, encoders : EncoderDicts]

\* whether joblib.load of each file succeeds at one call of the loader
Readables == [FileNames -> BOOLEAN]

\* the loads a rerun may attempt: none are attempted once a value is cached
AllReadable == [f \in FileNames |-> TRUE]
LoadAttempts == IF cached THEN {AllReadable} ELSE Readables

NoArtifacts == [model |-> FALSE, scaler |-> FALSE, enc |-> <<>>]

\* the body of load_ml_artifacts: the three joblib.load calls and the dict
\* {"model": model, "scaler": scaler, **encoders}; ok is FALSE when a load
\* raises and the except clause reports it and stops the rerun
LoaderBody(readable) ==
    IF \A f \in FileNames : readable[f]
    THEN [ok |-> TRUE, ran |-> TRUE,
          art |-> [model |-> files.model, scaler |-> files.scaler,
                   enc |-> files.encoders]]
    ELSE [ok |-> FALSE, ran |-> TRUE, art |-> NoArtifacts]

\* the loader without its cache decorator
LoadUncached(readable) == LoaderBody(readable)

\* a call of load_ml_artifacts() under @st.cache_resource: the cached value
\* when there is one, the body otherwise
load_ml_artifacts(readable) ==
    IF cached THEN [ok |-> TRUE, ran |-> FALSE, art |-> artifacts]
    ELSE LoaderBody(readable)

\* encoders = {k: v for k, v in artifacts.items() if k.startswith("label_")}
Encoders(art) == art.enc

\* the check without its scaler half
ModelMissing(art) == ~art.model

\* if not model or not scaler
ModelOrScalerMissing(art) == ~art.model \/ ~art.scaler

\* the rerun gets past section 2
Loaded(L) == L.ok /\ ~ModelOrScalerMissing(L.art)

\* the effect of the call on the cache: a returned value is stored
CacheStep(L) ==
    /\ cached' = (cached \/ L.ok)
    /\ artifacts' = IF L.ok THEN L.art ELSE artifacts
    /\ bodyRan' = L.ran
    /\ UNCHANGED files

-----------------------------------------------------------------------------
(* Widget values and local variables of a rerun *)

NoUpload == [state |-> "none", df |-> NoFrame]
BadUpload == [state |-> "bad", df |-> NoFrame]
Csv(df) == [state |-> "ok", df |-> df]

ModeViz == "Visualisasi Data"
ModePred == "Prediksi Air Layak"
InputDropdown == "Cari via Dropdown (Analisis Langsung)"
InputManual == "Input Manual (Prediksi Model)"

Inp0 ==
    [mode |-> ModeViz, upload |-> NoUpload, kabupaten |-> NaN,
     kecamatan |-> NaN, input_mode |-> InputDropdown, button |-> FALSE,
     submitted |-> FALSE, kab_text |-> "", kec_text |-> "", sumber_air |-> {}]

Loc0 ==
    [kabupaten_list |-> {}, kecamatan_list |-> {}, filtered |-> NoFrame,
     df_filtered |-> NoFrame, sumber_cols |-> {}, df_numeric |-> NoFrame,
     chart_data |-> <<>>, sumber_status |-> <<>>, layak_count |-> 0,
     data_dict |-> <<>>, calls |-> <<>>, failure |-> "none",
     label_encoded |-> 0, label |-> ""]

\* section 1: st.title and st.markdown
Header == <<"title", "markdown:intro">>

\* the end of section 2 and section 3: st.success and the sidebar radio
Ready == Header \o <<"success:Model dan resource berhasil dimuat", "radio:Navigasi">>

\* section 6: the sidebar footer
Footer == <<"sidebar:Developed by Kelompok 11">>

\* what a rerun leaves behind
Finish(i, res) ==
    /\ inp' = i
    /\ out' = res.out
    /\ outcome' = res.outcome
    /\ loc' = res.loc

\* the rerun ran to the last line of the script
Complete(o, l) == [out |-> o \o Footer, outcome |-> "complete", loc |-> l]
\* st.stop(): nothing after it is rendered
Stopped(o, l) == [out |-> o, outcome |-> "stopped", loc |-> l]
\* an exception no clause catches: the rerun ends with its traceback
Crashed(o, l, e) ==
    [out |-> o \o <<"exception:" \o e>>, outcome |-> "crashed", loc |-> l]

-----------------------------------------------------------------------------
(* A rerun that section 2 halts *)

HaltedResult(L) ==
    IF ~L.ok
    THEN Stopped(Header \o <<"error:Gagal memuat artifacts">>, Loc0)
    ELSE Stopped(Header \o <<"error:Model atau scaler tidak ditemukan">>, Loc0)

RerunHalted ==
    \E readable \in LoadAttempts :
       LET L == load_ml_artifacts(readable)
       IN  /\ ~Loaded(L)
           /\ CacheStep(L)
           /\ Finish(Inp0, HaltedResult(L))

-----------------------------------------------------------------------------
(* Section 4: the visualization panel *)

SampleCap == 1000

VizHead == Ready \o <<"header:Visualisasi", "markdown:viz", "uploader:data.csv">>

\* the values st.selectbox may return: a member of the options, None when
\* there are none
SelectFrom(options) == IF options = {} THEN {NaN} ELSE options

\* the kabupaten the selectbox of the panel may return for an upload
VizSelections(up) ==
    IF up.state = "ok" /\ GroupCol \in up.df.cols
    THEN SelectFrom(UniqueValues(up.df, GroupCol))
    ELSE {NaN}

\* the cap applied from SampleCap rows on
CappedFromCap(df) ==
    IF NRows(df) >= SampleCap
    THEN {[df |-> w, warned |-> TRUE] : w \in Sample(df, SampleCap)}
    ELSE {[df |-> df, warned |-> FALSE]}

\* lines 85-87: the working sets the cap may leave of a filtered frame, and
\* whether the warning is shown
Capped(df) ==
    IF NRows(df) > SampleCap
    THEN {[df |-> w, warned |-> TRUE] : w \in Sample(df, SampleCap)}
    ELSE {[df |-> df, warned |-> FALSE]}

\* the row with the sumber columns remapped
RemapRow(r, cols) == [c \in DOMAIN r |-> IF c \in cols THEN Remap(r[c]) ELSE r[c]]

\* the frame with the sumber columns remapped (lines 96-98, 175-176)
RemapFrame(df, cols) ==
    [df EXCEPT !.rows = MapBag(@, [r \in DOMAIN @ |-> RemapRow(r, cols)])]

\* lines 89-126, from the working set on; plot_simple_map is defined
\* nowhere, so the map branch raises NameError inside the try
VizCharts(o, l, df_filtered) ==
    LET sumber_cols == SumberCols(df_filtered.cols)
        df_numeric == RemapFrame(df_filtered, sumber_cols)
        chart_data == [c \in sumber_cols |-> ColSum(df_numeric, c)]
        l2 == [l EXCEPT !.sumber_cols = sumber_cols]
        l3 == [l2 EXCEPT !.df_numeric = df_numeric, !.chart_data = chart_data]
    IN  IF sumber_cols # {}
        THEN IF {"latitude", "longitude"} \subseteq df_filtered.cols
             THEN Complete(o \o <<"subheader:Distribusi", "plotly_chart",
                                  "subheader:Peta",
                                  "error:Terjadi error saat memproses file">>, l3)
             ELSE Complete(o \o <<"subheader:Distribusi", "plotly_chart",
                                  "info:Tidak ada kolom latitude dan longitude">>, l3)
        ELSE Complete(o \o <<"warning:Tidak ditemukan kolom sumber air">>, l2)

\* lines 59-132 for an upload, a selected kabupaten and a working set
VizPanel(up, kabupaten, working) ==
    IF up.state = "none"
    THEN Complete(VizHead \o <<"info:Unggah file CSV">>, Loc0)
    ELSE IF up.state = "bad"
    THEN Complete(VizHead \o <<"error:Terjadi error saat memproses file">>, Loc0)
    ELSE LET df == up.df
             o1 == VizHead \o <<"success:Data berhasil diunggah", "dataframe:head">>
         IN  IF GroupCol \notin df.cols
             THEN Stopped(o1 \o <<"error:Kolom 'bps_nama_kabupaten_kota' tidak ditemukan">>,
                          Loc0)
             ELSE LET filtered == FilterEq(df, GroupCol, kabupaten)
                      l1 == [Loc0 EXCEPT
                                !.kabupaten_list = UniqueValues(df, GroupCol),
                                !.filtered = filtered,
                                !.df_filtered = working.df]
                      o2 == o1 \o <<"selectbox:Pilih Kabupaten/Kota">>
                      o3 == IF working.warned
                            THEN o2 \o <<"warning:Data besar">> ELSE o2
                  IN  VizCharts(o3, l1, working.df)

\* the working sets of a rerun of the panel
VizWorking(up, kabupaten) ==
    IF up.state = "ok" /\ GroupCol \in up.df.cols
    THEN Capped(FilterEq(up.df, GroupCol, kabupaten))
    ELSE {[df |-> NoFrame, warned |-> FALSE]}

RerunVisualization(up) ==
    \E readable \in LoadAttempts :
       LET L == load_ml_artifacts(readable)
       IN  /\ Loaded(L)
           /\ CacheStep(L)
           /\ \E kabupaten \in VizSelections(up) :
                \E working \in VizWorking(up, kabupaten) :
                   Finish([Inp0 EXCEPT !.mode = ModeViz, !.upload = up,
                                       !.kabupaten = kabupaten],
                          VizPanel(up, kabupaten, working))

-----------------------------------------------------------------------------
(* Section 5: the prediction panel, dropdown analysis *)

PredHead == Ready \o <<"header:Prediksi", "markdown:pred", "uploader:pred_upload">>

\* lines 143-152: reading the upload, then the input mode radio
PredUploaded(up) ==
    PredHead
    \o (IF up.state = "ok" THEN <<"success:Data untuk dropdown berhasil diunggah">>
        ELSE IF up.state = "bad" THEN <<"error:Error memuat data">>
        ELSE <<>>)
    \o <<"radio:Pilih Mode Input">>

\* line 185: the status shown for a column
Status(df, col) == IF MeanAboveHalf(df, col) THEN "Ada" ELSE "Tidak Ada"

\* line 198: sum(1 for col in layak_cols if col in sumber_cols and mean > 0.5)
LayakCount(df, sumber_cols) ==
    Cardinality({i \in DOMAIN layak_cols :
                    /\ layak_cols[i] \in sumber_cols
                    /\ MeanAboveHalf(df, layak_cols[i])})

\* the verdict with 'Aman' from three sources on
VerdictFromThree(layak_count) ==
    IF layak_count >= 3 THEN "success:Aman"
    ELSE IF layak_count = 1 THEN "warning:Perlu Ditinjau"
    ELSE "info:Evaluasi lebih lanjut diperlukan"

\* lines 200-205: the verdict shown for a count
Verdict(layak_count) ==
    IF layak_count >= 4 THEN "success:Aman"
    ELSE IF layak_count = 1 THEN "warning:Perlu Ditinjau"
    ELSE "info:Evaluasi lebih lanjut diperlukan"

\* the kabupaten and kecamatan the two selectboxes may return
DropdownKab(up) ==
    IF up.state = "ok" /\ GroupCol \in up.df.cols
    THEN SelectFrom(UniqueValues(up.df, GroupCol))
    ELSE {NaN}

DropdownKec(up, kabupaten) ==
    IF up.state = "ok" /\ {GroupCol, KecCol} \subseteq up.df.cols
    THEN SelectFrom(UniqueValues(FilterEq(up.df, GroupCol, kabupaten), KecCol))
    ELSE {NaN}

\* lines 168-205: the button was clicked
Analysis(o, l, df_pred, kabupaten, kecamatan) ==
    LET filtered == FilterEq(FilterEq(df_pred, GroupCol, kabupaten), KecCol, kecamatan)
        sumber_cols == SumberCols(filtered.cols)
        df_filtered == RemapFrame(filtered, sumber_cols)
        sumber_status == [c \in sumber_cols |-> Status(df_filtered, c)]
        layak_count == LayakCount(df_filtered, sumber_cols)
        l1 == [l EXCEPT !.filtered = filtered]
        l2 == [l1 EXCEPT !.df_filtered = df_filtered, !.sumber_cols = sumber_cols]
        l3 == [l2 EXCEPT !.sumber_status = sumber_status, !.layak_count = layak_count]
    IN  IF NRows(filtered) = 0
        THEN Complete(o \o <<"error:Tidak ada data untuk kabupaten dan kecamatan ini">>, l1)
        ELSE IF sumber_cols = {}
        THEN Complete(o \o <<"warning:Tidak ditemukan kolom sumber air">>, l2)
        ELSE Complete(o \o <<"subheader:Status Sumber Air", "write:sumber_status",
                             Verdict(layak_count)>>, l3)

\* lines 154-205 for an upload, the two selections and the button
DropdownPanel(up, kabupaten, kecamatan, button) ==
    LET o == PredUploaded(up)
    IN  IF up.state # "ok"
        THEN Complete(o \o <<"warning:Unggah data CSV terlebih dahulu">>, Loc0)
        ELSE IF GroupCol \notin up.df.cols
        THEN Crashed(o, Loc0, "KeyError: 'bps_nama_kabupaten_kota'")
        ELSE LET l1 == [Loc0 EXCEPT !.kabupaten_list = UniqueValues(up.df, GroupCol)]
                 o1 == o \o <<"selectbox:Pilih Kabupaten/Kota">>
             IN  IF KecCol \notin up.df.cols
                 THEN Crashed(o1, l1, "KeyError: 'bps_nama_kecamatan'")
                 ELSE LET l2 == [l1 EXCEPT !.kecamatan_list =
                                    UniqueValues(FilterEq(up.df, GroupCol, kabupaten), KecCol)]
                          o2 == o1 \o <<"selectbox:Pilih Kecamatan", "button:Analisis Sumber Air">>
                      IN  IF button
                          THEN Analysis(o2, l2, up.df, kabupaten, kecamatan)
                          ELSE Complete(o2, l2)

RerunDropdown(up) ==
    \E readable \in LoadAttempts :
       LET L == load_ml_artifacts(readable)
       IN  /\ Loaded(L)
           /\ CacheStep(L)
           /\ \E kabupaten \in DropdownKab(up) :
                \E kecamatan \in DropdownKec(up, kabupaten) :
                   \E button \in BOOLEAN :
                      Finish([Inp0 EXCEPT !.mode = ModePred, !.upload = up,
                                          !.input_mode = InputDropdown,
                                          !.kabupaten = kabupaten,
                                          !.kecamatan = kecamatan,
                                          !.button = button],
                             DropdownPanel(up, kabupaten, kecamatan, button))

-----------------------------------------------------------------------------
(* Section 5: the prediction panel, manual input *)

\* LabelEncoder.transform of one value: its position in classes_, ValueError
\* for a value the encoder was not fitted on
Transform(classes, v) ==
    IF \E i \in DOMAIN classes : classes[i] = v
    THEN [ok |-> TRUE, val |-> (CHOOSE i \in DOMAIN classes : classes[i] = v) - 1]
    ELSE [ok |-> FALSE, val |-> 0]

\* LabelEncoder.inverse_transform of one class id
InverseTransform(classes, id) ==
    IF id + 1 \in DOMAIN classes
    THEN [ok |-> TRUE, val |-> classes[id + 1]]
    ELSE [ok |-> FALSE, val |-> ""]

\* the class ids model.predict may return, and what the scaler and the
\* model may do with the row: both are opaque objects
ClassIds == {0, 1, 2}
Replies ==
    {[raises |-> w, label_encoded |-> 0] : w \in {"scaler", "predict_proba", "predict"}}
    \cup {[raises |-> "none", label_encoded |-> c] : c \in ClassIds}

FormHead ==
    <<"text_input:Nama Kabupaten/Kota", "text_input:Nama Kecamatan",
      "multiselect:sumber air", "form_submit_button:Prediksi">>

\* the row with a field for kemasan
DataDictWithKemasan(kabupaten, kecamatan, sumber_air) ==
    [c \in {GroupCol, KecCol, Kemasan} \cup Range(sumber_air_options) |->
        IF c = GroupCol THEN Str(kabupaten)
        ELSE IF c = KecCol THEN Str(kecamatan)
        ELSE IF c \in sumber_air THEN Num(1) ELSE Num(0)]

\* lines 236-241: the row before encoding
DataDict(kabupaten, kecamatan, sumber_air) ==
    [c \in {GroupCol, KecCol} \cup Range(sumber_air_options) |->
        IF c = GroupCol THEN Str(kabupaten)
        ELSE IF c = KecCol THEN Str(kecamatan)
        ELSE IF c \in sumber_air THEN Num(1) ELSE Num(0)]

\* lines 244-247 for one key: the row and the calls after encoding it
EncodeKey(encoders, st, key) ==
    IF ~st.ok \/ ("label_" \o key) \notin DOMAIN encoders THEN st
    ELSE LET t == Transform(encoders["label_" \o key], st.data_dict[key].str)
         IN  [ok |-> t.ok,
              data_dict |-> IF t.ok THEN [st.data_dict EXCEPT ![key] = Num(t.val)]
                            ELSE st.data_dict,
              calls |-> Append(st.calls, "le.transform:" \o key)]

\* the label without the target encoder
DecodeFixed(encoders, label_encoded) ==
    [ok |-> TRUE, val |-> IF label_encoded = 1 THEN "ADA" ELSE "TIDAK"]

\* lines 255-272: the label for a predicted class id
Decode(encoders, label_encoded) ==
    IF EncTarget \in DOMAIN encoders
    THEN InverseTransform(encoders[EncTarget], label_encoded)
    ELSE [ok |-> TRUE, val |-> IF label_encoded = 1 THEN "ADA" ELSE "TIDAK"]

\* lines 267-270: the message for a label
Advice(label) ==
    IF label = "ADA" THEN "info:kemungkinan memiliki air minum yang layak"
    ELSE "warning:kemungkinan kekurangan sumber air minum layak"

PredictionError == "error:Terjadi kesalahan saat prediksi"

\* lines 255-275: the try block around the model calls
Predict(encoders, o, l, reply) ==
    IF reply.raises = "predict_proba"
    THEN Complete(o \o <<PredictionError>>,
                  [l EXCEPT !.calls = @ \o <<"model.predict_proba">>,
                            !.failure = "predict"])
    ELSE IF reply.raises = "predict"
    THEN Complete(o \o <<PredictionError>>,
                  [l EXCEPT !.calls = @ \o <<"model.predict_proba", "model.predict">>,
                            !.failure = "predict"])
    ELSE LET d == Decode(encoders, reply.label_encoded)
             c == l.calls \o <<"model.predict_proba", "model.predict">>
                  \o (IF EncTarget \in DOMAIN encoders
                      THEN <<"le_target.inverse_transform">> ELSE <<>>)
             l1 == [l EXCEPT !.calls = c, !.label_encoded = reply.label_encoded]
         IN  IF ~d.ok
             THEN Complete(o \o <<PredictionError>>, [l1 EXCEPT !.failure = "decode"])
             ELSE Complete(o \o <<"success:Hasil Prediksi", Advice(d.val),
                                  "caption:Prediksi ini bersifat estimasi">>,
                           [l1 EXCEPT !.label = d.val])

\* lines 231-275: the form was submitted
Submitted(encoders, o, kabupaten, kecamatan, sumber_air, reply) ==
    IF kabupaten = "" \/ kecamatan = ""
    THEN Complete(o \o <<"error:Harap isi nama kabupaten dan kecamatan">>, Loc0)
    ELSE LET st0 == [ok |-> TRUE, calls |-> <<>>,
                     data_dict |-> DataDict(kabupaten, kecamatan, sumber_air)]
             st2 == EncodeKey(encoders, EncodeKey(encoders, st0, GroupCol), KecCol)
             l1 == [Loc0 EXCEPT !.data_dict = st2.data_dict, !.calls = st2.calls]
         IN  IF ~st2.ok
             THEN Crashed(o, [l1 EXCEPT !.failure = "encode"],
                          "ValueError: y contains previously unseen labels")
             ELSE IF reply.raises = "scaler"
             THEN Crashed(o, [l1 EXCEPT !.calls = @ \o <<"scaler.transform">>,
                                        !.failure = "scale"],
                          "ValueError: scaler.transform")
             ELSE Predict(encoders, o, [l1 EXCEPT !.calls = @ \o <<"scaler.transform">>], reply)

\* lines 207-275 for an upload, the form's values and the replies
ManualPanel(encoders, up, submitted, kabupaten, kecamatan, sumber_air, reply) ==
    LET o == PredUploaded(up) \o FormHead
    IN  IF submitted
        THEN Submitted(encoders, o, kabupaten, kecamatan, sumber_air, reply)
        ELSE Complete(o, Loc0)

\* the values of the form: the submit button, the two texts, the multiselect
Form(submitted, kabupaten, kecamatan, sumber_air) ==
    [submitted |-> submitted, kab_text |-> kabupaten, kec_text |-> kecamatan,
     sumber_air |-> sumber_air]

\* whether the rerun reaches the scaler and the model
CallsModel(form) == form.submitted /\ form.kab_text # "" /\ form.kec_text # ""

NoReply == [raises |-> "none", label_encoded |-> 0]

RerunManual(up, form) ==
    \E readable \in LoadAttempts :
       LET L == load_ml_artifacts(readable)
       IN  /\ Loaded(L)
           /\ CacheStep(L)
           /\ \E reply \in IF CallsModel(form) THEN Replies ELSE {NoReply} :
                 Finish([Inp0 EXCEPT !.mode = ModePred, !.upload = up,
                                     !.input_mode = InputManual,
                                     !.submitted = form.submitted,
                                     !.kab_text = form.kab_text,
                                     !.kec_text = form.kec_text,
                                     !.sumber_air = form.sumber_air],
                        ManualPanel(Encoders(L.art), up, form.submitted,
                                    form.kab_text, form.kec_text,
                                    form.sumber_air, reply))

-----------------------------------------------------------------------------
(* Uploaded files *)

\* the bags of one to n rows drawn from a set of rows, and the empty bag
RECURSIVE BagsUpTo(_, _)
BagsUpTo(rows, n) ==
    IF n = 0 THEN {EmptyBag}
    ELSE LET smaller == BagsUpTo(rows, n - 1)
         IN  smaller \cup
             {IF r \in DOMAIN b
              THEN [b EXCEPT ![r] = @ + 1]
              ELSE [x \in DOMAIN b \cup {r} |-> IF x = r THEN 1 ELSE b[x]] :
                 b \in smaller, r \in rows}

\* the rows over a set of columns: a kabupaten, a kecamatan, a cell of
\* `cells` in every sumber column, a number in every other column
RowsOver(cols, kabs, kecs, cells) ==
    {[c \in cols |-> IF c = GroupCol THEN Str(kab)
                     ELSE IF c = KecCol THEN Str(kec)
                     ELSE IF c \in SumberNames THEN ind[c]
                     ELSE Num(0)] :
        kab \in kabs, kec \in kecs, ind \in [SumberCols(cols) -> cells]}

StrCells == {Str("ADA"), Str("TIDAK")}
NumCells == {Num(1), Num(0)}

FramesOver(cols, kabs, kecs, cells, n) ==
    {Frame(cols, b) : b \in BagsUpTo(RowsOver(cols, kabs, kecs, cells), n)}

\* the uploads of the page specification
PageColumns ==
    {{KecCol, LedengMeteran},
     {GroupCol, LedengMeteran},
     {GroupCol, KecCol},
     {GroupCol, KecCol, LedengMeteran},
     {GroupCol, KecCol, MataAir, "latitude", "longitude"}}

PageUploads ==
    {NoUpload, BadUpload} \cup
    {Csv(df) : df \in UNION {FramesOver(cols, {"A", "B"}, {"X"}, StrCells, MaxPageRows) :
                                cols \in PageColumns}}

\* the forms of the page specification: not submitted, and submitted with
\* empty, known and unknown names
PageForms ==
    {Form(FALSE, "", "", {})} \cup
    {Form(TRUE, n[1], n[2], S) :
        n \in {<<"", "">>, <<KnownKab, "">>, <<KnownKab, KnownKec>>,
               <<"Atlantis", KnownKec>>, <<KnownKab, "Atlantis">>},
        S \in {{}, {LedengMeteran, MataAir}}}

-----------------------------------------------------------------------------
(* The page: any sequence of reruns in one process *)

NoRerun ==
    /\ cached = FALSE
    /\ artifacts = NoArtifacts
    /\ bodyRan = FALSE
    /\ outcome = "none"
    /\ out = <<>>
    /\ loc = Loc0

Init ==
    /\ files \in FileStates
    /\ NoRerun
    /\ inp = Inp0

Next ==
    \/ RerunHalted
    \/ \E up \in PageUploads : RerunVisualization(up)
    \/ \E up \in PageUploads : RerunDropdown(up)
    \/ \E up \in {NoUpload, BadUpload}, form \in PageForms : RerunManual(up, form)

Spec == Init /\ [][Next]_vars

-----------------------------------------------------------------------------
(* The manual form: a form is filled in, then submitted any number of times *)

\* files whose model and scaler are truthy objects
GoodFiles == {f \in FileStates : f.model /\ f.scaler}

\* the selections the multiselect may return
Selections ==
    {S \in SUBSET Range(sumber_air_options) : Cardinality(S) <= MaxSelected}

KabTexts == {"", KnownKab, "Atlantis"}
KecTexts == {"", KnownKec, "Atlantis"}

FormOf(i) == Form(i.submitted, i.kab_text, i.kec_text, i.sumber_air)

InitManual ==
    /\ files \in GoodFiles
    /\ NoRerun
    /\ \E kabupaten \in KabTexts, kecamatan \in KecTexts, sumber_air \in Selections :
          inp = [Inp0 EXCEPT !.mode = ModePred, !.input_mode = InputManual,
                             !.submitted = TRUE, !.kab_text = kabupaten,
                             !.kec_text = kecamatan, !.sumber_air = sumber_air]

NextManual == RerunManual(inp.upload, FormOf(inp))

SpecManual == InitManual /\ [][NextManual]_vars

-----------------------------------------------------------------------------
(* The assessment: a file is uploaded, then analysed any number of times *)

\* one set of files with every artifact in place
FullFiles ==
    [model |-> TRUE, scaler |-> TRUE,
     encoders |-> [k \in {EncKab, EncKec, EncTarget} |->
                     IF k = EncKab THEN <<KnownKab>>
                     ELSE IF k = EncKec THEN <<KnownKec>>
                     ELSE <<"ADA", "TIDAK">>]]

\* a village of another kecamatan, every source 'ADA'
OtherRow(cols) ==
    [c \in cols |-> IF c = GroupCol THEN Str("A")
                    ELSE IF c = KecCol THEN Str("Y")
                    ELSE Str("ADA")]

\* the frame with one more column, the same cell in every row
WithColumn(df, col, cell) ==
    Frame(df.cols \cup {col},
          MapBag(df.rows,
                 [r \in DOMAIN df.rows |->
                    [c \in DOMAIN r \cup {col} |-> IF c = col THEN cell ELSE r[c]]]))

\* the frame with one more row
WithRow(df, r) == Frame(df.cols, df.rows (+) SetToBag({r}))

\* frames of up to MaxRows villages of one kecamatan over every choice among
\* the four layak columns, in two encodings of the cells
LayakFrames ==
    UNION {FramesOver({GroupCol, KecCol} \cup P, {"A"}, {"X"}, cells, MaxRows) :
            P \in SUBSET Range(layak_cols), cells \in {StrCells, NumCells}}

\* ..., with or without a source that is not layak and is 'ADA' everywhere,
\* and with or without a village of another kecamatan
AssessFrames ==
    LET more == LayakFrames \cup {WithColumn(df, Sumur, Str("ADA")) : df \in LayakFrames}
    IN  more \cup {WithRow(df, OtherRow(df.cols)) : df \in more}

InitAssess ==
    /\ files = FullFiles
    /\ NoRerun
    /\ \E df \in AssessFrames :
          inp = [Inp0 EXCEPT !.mode = ModePred, !.upload = Csv(df)]

NextAssess == RerunDropdown(inp.upload)

SpecAssess == InitAssess /\ [][NextAssess]_vars

-----------------------------------------------------------------------------
(* The sampling cap: a large file is uploaded, then shown any number of    *)
(* times                                                                   *)

\* the bag with n copies of each row r, n = count[r], rows with none left out
Copies(count) == [r \in {x \in DOMAIN count : count[x] > 0} |-> count[r]]

BigRow(kab, cell) == [c \in {GroupCol, LedengMeteran} |->
                        IF c = GroupCol THEN Str(kab) ELSE cell]

\* frames whose kabupaten "A" has about SampleCap villages
BigFrames ==
    {Frame({GroupCol, LedengMeteran},
           Copies([r \in {BigRow("A", Str("ADA")), BigRow("A", Str("TIDAK")),
                          BigRow("B", Str("ADA"))} |->
                     IF r = BigRow("A", Str("ADA")) THEN n
                     ELSE IF r = BigRow("A", Str("TIDAK")) THEN m ELSE k])) :
        n \in (SampleCap - MaxOver)..(SampleCap + MaxOver),
        m \in 0..MaxOver, k \in 0..MaxOver}

InitSample ==
    /\ files = FullFiles
    /\ NoRerun
    /\ \E df \in BigFrames : inp = [Inp0 EXCEPT !.upload = Csv(df)]

NextSample == RerunVisualization(inp.upload)

SpecSample == InitSample /\ [][NextSample]_vars

-----------------------------------------------------------------------------
(* Properties *)

\* a rerun has happened
Ran == outcome # "none"

\* the last rerun rendered element m
Has(m) == \E i \in DOMAIN out : out[i] = m

InManual == Ran /\ inp.mode = ModePred /\ inp.input_mode = InputManual
InDropdown == Ran /\ inp.mode = ModePred /\ inp.input_mode = InputDropdown
InViz == Ran /\ inp.mode = ModeViz

\* the rows of the upload in the selected kabupaten
RowsOfKabupaten ==
    LET B == inp.upload.df.rows
    IN  [r \in {x \in DOMAIN B : x[GroupCol] = inp.kabupaten} |-> B[r]]

\* the rows of the upload in the selected kabupaten and kecamatan
RowsOfKecamatan ==
    LET B == inp.upload.df.rows
    IN  [r \in {x \in DOMAIN B : /\ x[GroupCol] = inp.kabupaten
                                 /\ x[KecCol] = inp.kecamatan} |-> B[r]]

\* the number of rows of a bag whose cell in column c is one of `cells`
CountIn(B, c, cells) ==
    BagCardinality([r \in {x \in DOMAIN B : x[c] \in cells} |-> B[r]])

\* the analysis ran to its verdict
Analysed == InDropdown /\ inp.button /\ Has("subheader:Status Sumber Air")

(* C1: in the manual path, a failure of encoding, scaling or prediction is
   caught and shown as an error message: the rerun does not end with an
   uncaught exception and shows no prediction result. *)
C1_FailureIsCaught ==
    (InManual /\ inp.submitted /\ inp.kab_text # "" /\ inp.kec_text # ""
        /\ loc.failure # "none")
    => /\ outcome # "crashed"
       /\ Has(PredictionError)
       /\ ~Has("success:Hasil Prediksi")

(* C2: an uploaded CSV without the column bps_nama_kabupaten_kota, in the
   visualization panel or in the dropdown analysis, gets an error message
   and never an uncaught exception. *)
C2_MissingColumnReported ==
    (Ran /\ (InViz \/ InDropdown) /\ inp.upload.state = "ok"
        /\ GroupCol \notin inp.upload.df.cols)
    => /\ outcome # "crashed"
       /\ Has("error:Kolom 'bps_nama_kabupaten_kota' tidak ditemukan")

Verdicts ==
    {"success:Aman", "warning:Perlu Ditinjau", "info:Evaluasi lebih lanjut diperlukan"}

\* every row of the selected kecamatan has 'ADA' in column c
AllAda(c) ==
    /\ c \in inp.upload.df.cols
    /\ \A r \in DOMAIN RowsOfKecamatan : r[c] = Str("ADA")

\* no row of the selected kecamatan has 'ADA' in column c
NoneAda(c) ==
    c \in inp.upload.df.cols => \A r \in DOMAIN RowsOfKecamatan : r[c] # Str("ADA")

(* C3: the analysis shows exactly one verdict: 'Aman' iff layak_count >= 4,
   'Perlu Ditinjau' iff layak_count = 1, 'Evaluasi lebih lanjut' for 0, 2
   and 3; four layak columns all 'ADA' give 'Aman', exactly one all 'ADA'
   and the others without 'ADA' gives 'Perlu Ditinjau'. *)
C3_VerdictByCount ==
    Analysed =>
       /\ loc.layak_count \in 0..4
       /\ Cardinality({i \in DOMAIN out : out[i] \in Verdicts}) = 1
       /\ Has("success:Aman") <=> loc.layak_count >= 4
       /\ Has("warning:Perlu Ditinjau") <=> loc.layak_count = 1
       /\ Has("info:Evaluasi lebih lanjut diperlukan") <=> loc.layak_count \in {0, 2, 3}
       /\ (\A c \in {Kemasan, LedengMeteran, LedengTanpaMeteran, MataAir} : AllAda(c))
             => Has("success:Aman")
       /\ (\E c \in {Kemasan, LedengMeteran, LedengTanpaMeteran, MataAir} :
              /\ AllAda(c)
              /\ \A d \in {Kemasan, LedengMeteran, LedengTanpaMeteran, MataAir} \ {c} :
                    NoneAda(d))
             => Has("warning:Perlu Ditinjau")

C3_Witness ==
    /\ Analysed
    /\ \A c \in {Kemasan, LedengMeteran, LedengTanpaMeteran, MataAir} : AllAda(c)
    /\ loc.layak_count = 4
    /\ Has("success:Aman")

(* C4: the remap is idempotent, a remapped 1 stays 1 and a remapped 0 stays
   0 when remapped again, and a column uploaded as numeric 0/1 is counted as
   the corresponding 'ADA'/'TIDAK' column is. *)
C4_RemapIdempotent ==
    Analysed =>
       /\ \A r \in DOMAIN loc.df_filtered.rows : \A c \in loc.sumber_cols :
             Remap(r[c]) = r[c]
       /\ \A c \in loc.sumber_cols :
             loc.sumber_status[c] = "Ada"
             <=> 2 * CountIn(RowsOfKecamatan, c, {Str("ADA"), Num(1)})
                    > BagCardinality(RowsOfKecamatan)

\* the loader's body ran and left nothing in the cache: a load failed
LoadFailed == bodyRan /\ ~cached

(* C5: when a load fails, or the loaded model or scaler is missing, the
   rerun shows an error and halts: the success message, the navigation, the
   panels and the footer are not rendered. *)
C5_HaltsWithoutArtifacts ==
    (Ran /\ (LoadFailed \/ (cached /\ (~artifacts.model \/ ~artifacts.scaler))))
    => /\ outcome = "stopped"
       /\ out = <<"title", "markdown:intro",
                  IF LoadFailed THEN "error:Gagal memuat artifacts"
                  ELSE "error:Model atau scaler tidak ditemukan">>
       /\ ~Has("success:Model dan resource berhasil dimuat")
       /\ ~Has("radio:Navigasi")
       /\ ~Has("sidebar:Developed by Kelompok 11")

C5_Witness ==
    /\ Ran
    /\ cached /\ artifacts.model /\ ~artifacts.scaler
    /\ outcome = "stopped"

(* C6: once load_ml_artifacts has returned, every later rerun gets the same
   cached artifacts and does not execute the loader's body. *)
C6_LoadedOnce ==
    [][cached => (cached' /\ artifacts' = artifacts /\ ~bodyRan')]_vars

C6_Witness ==
    /\ cached
    /\ ~bodyRan
    /\ outcome = "complete"

\* bag a is drawn from bag b
DrawnFrom(a, b) == \A r \in DOMAIN a : r \in DOMAIN b /\ a[r] <= b[r]

(* C7: in the visualization panel the working set has exactly 1000 rows,
   drawn from the filtered set, with the warning shown, when the filtered
   set has more than 1000 rows; it is the filtered set, with no warning,
   when that has 1000 rows or fewer. *)
C7_SamplingCap ==
    (InViz /\ inp.upload.state = "ok" /\ GroupCol \in inp.upload.df.cols)
    => IF BagCardinality(RowsOfKabupaten) > 1000
       THEN /\ BagCardinality(loc.df_filtered.rows) = 1000
            /\ DrawnFrom(loc.df_filtered.rows, RowsOfKabupaten)
            /\ Has("warning:Data besar")
       ELSE /\ loc.df_filtered.rows = RowsOfKabupaten
            /\ ~Has("warning:Data besar")

C7_Witness ==
    /\ InViz
    /\ BagCardinality(RowsOfKabupaten) > 1000
    /\ BagCardinality(loc.df_filtered.rows) = 1000
    /\ loc.df_filtered.rows # RowsOfKabupaten
    /\ Has("warning:Data besar")

\* strictly more than half of the rows of the selected kecamatan are 'ADA'
\* in column c
MajorityAda(c) ==
    2 * CountIn(RowsOfKecamatan, c, {Str("ADA")}) > BagCardinality(RowsOfKecamatan)

(* C8: a source column is reported present iff strictly more than half of
   the filtered rows are 'ADA' (a tie is absent), and layak_count is the
   number of the four layak columns that are in the upload and are reported
   present, so it lies in 0..4. *)
C8_PresentIffMajority ==
    Analysed =>
       /\ DOMAIN loc.sumber_status = inp.upload.df.cols \cap SumberNames
       /\ \A c \in DOMAIN loc.sumber_status :
             loc.sumber_status[c] = "Ada" <=> MajorityAda(c)
       /\ \A c \in DOMAIN loc.sumber_status :
             loc.sumber_status[c] = "Tidak Ada" <=> ~MajorityAda(c)
       /\ loc.layak_count =
             Cardinality({c \in {Kemasan, LedengMeteran, LedengTanpaMeteran, MataAir} :
                             c \in inp.upload.df.cols /\ MajorityAda(c)})
       /\ loc.layak_count \in 0..4

C8_Witness ==
    /\ Analysed
    /\ \E c \in DOMAIN loc.sumber_status :
          /\ 2 * CountIn(RowsOfKecamatan, c, {Str("ADA")}) = BagCardinality(RowsOfKecamatan)
          /\ loc.sumber_status[c] = "Tidak Ada"
    /\ \E c \in DOMAIN loc.sumber_status : loc.sumber_status[c] = "Ada"

\* the rerun showed a prediction
Predicted == InManual /\ Has("success:Hasil Prediksi")

(* C9: on a successful prediction the label is the target encoder's inverse
   transform of the class id when there is an encoder 'label_target', and
   otherwise 'ADA' exactly for class id 1 and 'TIDAK' for any other; the
   'layak' message is shown iff the label is 'ADA', the warning otherwise. *)
C9_LabelDecode ==
    Predicted =>
       /\ IF EncTarget \in DOMAIN artifacts.enc
          THEN /\ loc.label_encoded + 1 \in DOMAIN artifacts.enc[EncTarget]
               /\ loc.label = artifacts.enc[EncTarget][loc.label_encoded + 1]
          ELSE loc.label = IF loc.label_encoded = 1 THEN "ADA" ELSE "TIDAK"
       /\ Has("info:kemungkinan memiliki air minum yang layak") <=> loc.label = "ADA"
       /\ Has("warning:kemungkinan kekurangan sumber air minum layak") <=> loc.label # "ADA"

C9_Witness ==
    /\ Predicted
    /\ EncTarget \in DOMAIN artifacts.enc
    /\ loc.label_encoded = 0
    /\ loc.label = "ADA"
    /\ Has("info:kemungkinan memiliki air minum yang layak")

(* C10: a submitted form with both names builds a row of the two name fields
   and the eight option fields, each option field 1 iff the option was
   selected and 0 otherwise; kemasan is no field of the row and cannot be
   selected; with a name empty an error is shown and no encoder, scaler or
   model is called. *)
C10_RowOfTheForm ==
    (InManual /\ inp.submitted) =>
       IF inp.kab_text # "" /\ inp.kec_text # ""
       THEN /\ DOMAIN loc.data_dict =
                  {GroupCol, KecCol, LedengMeteran, LedengTanpaMeteran, Sumur,
                   SumurBor, MataAir, Sungai, Hujan, Lainnya}
            /\ \A s \in DOMAIN loc.data_dict \ {GroupCol, KecCol} :
                  /\ loc.data_dict[s] = Num(1) <=> s \in inp.sumber_air
                  /\ loc.data_dict[s] = Num(0) <=> s \notin inp.sumber_air
            /\ Kemasan \notin DOMAIN loc.data_dict
            /\ Kemasan \notin inp.sumber_air
       ELSE /\ Has("error:Harap isi nama kabupaten dan kecamatan")
            /\ loc.calls = <<>>
            /\ loc.data_dict = <<>>

C10_Witness ==
    /\ InManual /\ inp.submitted
    /\ inp.kab_text # "" /\ inp.kec_text # ""
    /\ inp.sumber_air = {LedengMeteran, MataAir}
    /\ loc.data_dict[MataAir] = Num(1)
    /\ loc.data_dict[Sumur] = Num(0)

=============================================================================
